---- MODULE Spec2Model ----
(***************************************************************************)
(* Model of the proxy Store of webext-redux (src/src/store/Store.js).      *)
(*                                                                         *)
(* JavaScript runs one callback at a time.  A callback of the transport    *)
(* (the onMessage listener, the sendMessage response callback), a direct   *)
(* call of a public method and a promise reaction each run to completion;  *)
(* promise reactions on readyPromise run in the order in which they were   *)
(* registered and before the next callback of the transport (ECMAScript    *)
(* job queue).  A running callback is followed step by step through its    *)
(* notification round (pc, frame, round) because the listeners it invokes  *)
(* call back into subscribe and unsubscribe.                               *)
(*                                                                         *)
(* The store is built with channelName "main" and a deserializer that      *)
(* unwraps a serialized payload and throws on anything else.  Listeners    *)
(* return normally and call subscribe and unsubscribe only; they do not    *)
(* call replaceState or patchState from inside a round.  frame and obs     *)
(* record what the running callback was given and has done; Return clears  *)
(* them.                                                                   *)
(***************************************************************************)
EXTENDS Integers, Sequences, FiniteSets, TLC

(* ------------------------------ bounds --------------------------------- *)
MaxRegs == 2        \* subscribe calls over the life of the store
MaxPending == 2     \* patchState calls suspended on readyPromise
MaxDispatch == 2    \* dispatch calls over the life of the store

(* --------------------------- value domains ----------------------------- *)
Absent == 0 - 1
Keys == {"count"}
Vals == {0, 1}
\* a StoreState: a mapping of top-level keys (Absent: the key is not there)
StateVals == [Keys -> Vals \cup {Absent}]
\* a diff names the keys it changes (Absent: the key is not in the diff)
Diffs == [Keys -> Vals \cup {Absent}]
EmptyState == [k \in Keys |-> Absent]
Callbacks == {"f", "g"}

\* channels that share the transport
ChannelName == "main"
OtherChannel == "other"
Channels == {ChannelName, OtherChannel}

\* message types of ../constants
FETCH_STATE_TYPE == "FETCH_STATE"
STATE_TYPE == "STATE"
PATCH_STATE_TYPE == "PATCH_STATE"
UnknownType == "SOMETHING_ELSE"      \* a string that is no type of the library
NonStringType == "<not a string>"    \* stands for a type that is not a string
Types == {FETCH_STATE_TYPE, STATE_TYPE, PATCH_STATE_TYPE, UnknownType,
          NonStringType}

\* payloads on the wire: a serialized value, or something the deserializer
\* cannot read
Serialized(v) == [ok |-> TRUE, body |-> v]
Garbage == [ok |-> FALSE, body |-> EmptyState]
WirePayloads == {Serialized(v) : v \in StateVals} \cup {Garbage}

NullMessage == [truthy |-> FALSE, type |-> NonStringType,
                channelName |-> OtherChannel, payload |-> Garbage]
Envelopes == [truthy : {TRUE}, type : Types, channelName : Channels,
              payload : WirePayloads]
Messages == Envelopes \cup {NullMessage}

(* ------------------------- pure functions ------------------------------ *)
\* options.deserializer: reads a serialized payload, throws on anything else
DeserializerThrows(p) == ~p.ok
Deserializer(p) == p.body

\* options.patchStrategy (shallow diff): later values win per top-level key
PatchStrategy(s, d) == [k \in Keys |-> IF d[k] # Absent THEN d[k] ELSE s[k]]

\* shouldDeserialize without its test of the channel
shouldDeserializeAnyChannel(message) ==
    /\ message.truthy
    /\ message.type # NonStringType

\* Store.js:81-87
shouldDeserialize(message) ==
    /\ message.truthy
    /\ message.type # NonStringType
    /\ message.channelName = ChannelName

\* the guard of the inbound listener without its test of the channel
listenerDiscardsFalsyOnly(message) == ~message.truthy

\* Store.js:90 (the guard of the inbound listener)
listenerDiscards(message) ==
    \/ ~message.truthy
    \/ message.channelName # ChannelName

\* initializeStore looking for the type of a STATE push
initializeAcceptsStateType(message) ==
    message.truthy /\ message.type = STATE_TYPE

\* initializeStore taking any truthy response for the state
initializeAcceptsAnyType(message) == message.truthy

\* Store.js:224 (the guard of initializeStore)
initializeAccepts(message) ==
    /\ message.truthy
    /\ message.type = FETCH_STATE_TYPE

\* withDeserializer(deserializer) of ../serialization around the inbound
\* listener (Store.js:68, 74-80): the payload of a message that passes
\* shouldDeserialize is run through the deserializer, any other message is
\* handed to the listener as it came
withDeserializer(message) ==
    IF shouldDeserialize(message)
    THEN IF DeserializerThrows(message.payload)
         THEN [deser |-> 1, threw |-> TRUE, payload |-> message.payload]
         ELSE [deser |-> 1, threw |-> FALSE,
               payload |-> Deserializer(message.payload)]
    ELSE [deser |-> 0, threw |-> FALSE, payload |-> message.payload]

\* patchState assigning the diff itself
patchedStateIsDiff(s, d) == d

\* Store.js:152 (the state patchState assigns)
patchedState(s, d) == PatchStrategy(s, d)

\* patchState without its wait on readyPromise
patchStateNeverWaits(ready) == FALSE

\* Store.js:150 (patchState suspends on readyPromise)
patchStateWaits(ready) == ~ready

\* readyResolve called without looking at readyResolved
mustResolveAlways(ready) == TRUE

\* Store.js:98 and 228 (the guard of readyResolve)
mustResolve(ready) == ~ready

\* unsubscribe removing one entry only, the first that holds the callback
unsubscribeFirstOnly(ls, fn) ==
    LET at == {i \in 1..Len(ls) : ls[i].fn = fn}
    IN  IF at = {} THEN ls
        ELSE LET k == CHOOSE i \in at : \A j \in at : i <= j
             IN  SubSeq(ls, 1, k - 1) \o SubSeq(ls, k + 1, Len(ls))

\* the filter test turned round: the entries of the callback are the ones kept
unsubscribeKeepsOnly(ls, fn) == SelectSeq(ls, LAMBDA l : l.fn = fn)

\* Store.js:140 (the filter of the unsubscribe closure)
unsubscribeFilter(ls, fn) == SelectSeq(ls, LAMBDA l : l.fn # fn)

\* a loop that reads this.listeners and its length anew at every index
forEachNextLive(rnd, ls) ==
    IF rnd.idx <= Len(ls) THEN <<ls[rnd.idx]>> ELSE <<>>

\* Array.prototype.forEach of Store.js:153 and 163: visits the indices below
\* the length the array had when the round started
forEachNext(rnd, ls) ==
    IF rnd.idx <= rnd.len THEN <<rnd.arr[rnd.idx]>> ELSE <<>>

(* ------------------------- dispatch and its answer --------------------- *)
DISPATCH_TYPE == "DISPATCH"
\* the actions handed to dispatch
Actions == {"inc", "dec"}
\* the result of an action in the host: undefined, an object without
\* payload, an object with a payload
Undefined == [def |-> FALSE, has |-> FALSE, payload |-> Absent]
ResultObj(v) == [def |-> TRUE, has |-> v # Absent, payload |-> v]
ResultObjs == {Undefined, ResultObj(Absent), ResultObj(42)}
\* the value field of a response: the serialized form of a result, or a
\* result that was put on the wire as it is
WireValues == [ok : BOOLEAN, body : ResultObjs]

\* JavaScript values met as lastError or as the error field of a response.
\* str is String(e), props are the enumerable properties assignIn copies
\* (<<>>: the property is not there).
ErrKeys == {"message", "code", "0"}
NoProps == [k \in ErrKeys |-> <<>>]
UndefinedError == [truthy |-> FALSE, str |-> "undefined", props |-> NoProps]
StringError ==
    [truthy |-> TRUE, str |-> "e", props |-> [NoProps EXCEPT !["0"] = <<"e">>]]
CodeError ==
    [truthy |-> TRUE, str |-> "[object Object]",
     props |-> [NoProps EXCEPT !["code"] = <<"7">>]]
MessageError ==
    [truthy |-> TRUE, str |-> "[object Object]",
     props |-> [NoProps EXCEPT !["message"] = <<"failed">>]]
ErrorValues == {UndefinedError, StringError, CodeError, MessageError}

\* what the transport hands to the response callback: nothing, or an object
\* with the fields error and value
NoResponse == [truthy |-> FALSE, error |-> UndefinedError,
               value |-> [ok |-> FALSE, body |-> Undefined]]
Responses ==
    {NoResponse} \cup [truthy : {TRUE}, error : ErrorValues, value : WireValues]

\* the text every rejection message of dispatch begins with
backgroundErrPrefix ==
    "\nLooks like there is an error in the background page. You might want to inspect your background page for more details.\n"

\* a promise returned by dispatch, with what its response callback did:
\* answered tells that the callback has been invoked, threw tells that the
\* deserializer threw in the invocation that settled the promise, escaped
\* that an exception left the callback
PendingFuture ==
    [status |-> "pending", payload |-> Absent, error |-> NoProps,
     answered |-> FALSE, threw |-> FALSE, escaped |-> FALSE]

\* the message of new Error(`${backgroundErrPrefix}${error}`), Store.js:196
\* and 214, as the pair of its two parts
bgErrOf(error) ==
    [NoProps EXCEPT !["message"] = <<backgroundErrPrefix, error.str>>]

\* lodash assignIn(object, source): every enumerable property of source is
\* assigned to object
assignIn(object, source) ==
    [k \in ErrKeys |->
        IF source.props[k] # <<>> THEN source.props[k] ELSE object[k]]

\* the value of a response read as an object without deserializing it: the
\* serialized form of a result has no payload property
rawValue(w) == IF w.ok THEN ResultObj(Absent) ELSE w.body

\* the response handler without the deserializer call
deserializedValueSkipped(w) == rawValue(w)

\* Store.js:205-211: value after the try/catch around the deserializer call
deserializedValue(w) ==
    IF DeserializerThrows(w) THEN rawValue(w) ELSE Deserializer(w)

\* the deserializer call without the try/catch: its exception leaves the
\* response callback
deserializerEscapesUncaught(w) == DeserializerThrows(w)

\* Store.js:206-210: the catch clause is empty, no exception leaves the callback
deserializerEscapes(w) == FALSE

\* Store.js:217: value && value.payload (Absent: undefined)
resolution(value) == IF value.def /\ value.has THEN value.payload ELSE Absent

\* Store.js:194 and 213: the tests that lead to reject
responseRejects(resp) == ~resp.truthy \/ resp.error.truthy

\* Store.js:195 and 202: the error the rejection is built from
responseError(resp, lastError) == IF ~resp.truthy THEN lastError ELSE resp.error

\* reject and resolve of the promise of Store.js:187: a settled promise stays
\* as it is
reject(fut, e, threw) ==
    IF fut.status = "pending"
    THEN [fut EXCEPT !.status = "rejected", !.error = e, !.threw = threw]
    ELSE fut
resolve(fut, v, threw) ==
    IF fut.status = "pending"
    THEN [fut EXCEPT !.status = "resolved", !.payload = v, !.threw = threw]
    ELSE fut

\* the envelope without the channel of the store
dispatchEnvelopeUnaddressed(data) ==
    [type |-> DISPATCH_TYPE, channelName |-> OtherChannel, payload |-> data]

\* Store.js:189-193
dispatchEnvelope(data) ==
    [type |-> DISPATCH_TYPE, channelName |-> ChannelName, payload |-> data]

\* withSerializer(serializer)(sendMessage), Store.js:69: the payload of the
\* message goes through the serializer
serializedMessageSender(message) == [message EXCEPT !.payload = Serialized(@)]

\* the request of Store.js:63-65
FetchRequest(channelName) ==
    [type |-> FETCH_STATE_TYPE, channelName |-> channelName,
     payload |-> Undefined]

(* ----------------------------- construction ---------------------------- *)
\* the default channel name of ../constants
DEFAULT_CHANNEL_NAME == "webext.channel"
\* an option that is not given (undefined): the default parameter applies
Missing == "<missing>"
EmptyName == ""
\* what a caller gives as serializer, deserializer, patchStrategy
IsFunction == "function"
NotFunction == "not a function"
Options ==
    [channelName : {ChannelName, EmptyName, Missing},
     serializer : {IsFunction, NotFunction, Missing},
     deserializer : {IsFunction, NotFunction, Missing},
     patchStrategy : {IsFunction, NotFunction, Missing}]

\* Store.js:41, the default parameters of the constructor
withDefaults(o) ==
    [channelName |-> IF o.channelName = Missing THEN DEFAULT_CHANNEL_NAME
                     ELSE o.channelName,
     serializer |-> IF o.serializer = Missing THEN IsFunction
                    ELSE o.serializer,
     deserializer |-> IF o.deserializer = Missing THEN IsFunction
                      ELSE o.deserializer,
     patchStrategy |-> IF o.patchStrategy = Missing THEN IsFunction
                       ELSE o.patchStrategy]

NoError == "<none>"

\* the constructor testing the channel name only
configurationErrorNameOnly(o) ==
    IF o.channelName = EmptyName THEN "channelName is required in options"
    ELSE NoError

\* Store.js:42-53, the message of the error thrown (NoError: none is)
configurationError(o) ==
    IF o.channelName = EmptyName THEN "channelName is required in options"
    ELSE IF o.serializer # IsFunction THEN "serializer must be a function"
    ELSE IF o.deserializer # IsFunction THEN "deserializer must be a function"
    ELSE IF o.patchStrategy # IsFunction
         THEN "patchStrategy must be one of the included patching strategies or a custom patching function"
    ELSE NoError

(* ------------------------------ state ---------------------------------- *)
VARIABLES
    state,              \* this.state
    readyResolved,      \* this.readyResolved
    readyResolveCalls,  \* invocations of this.readyResolve
    listeners,          \* this.listeners: <<[fn, reg]>>
    regFn,              \* regFn[r]: the callback of the r-th subscribe call
    unsubCalled,        \* registrations whose unsubscribe has been invoked
    reactions,          \* continuations waiting on readyPromise, in order
    fetchPending,       \* the FETCH_STATE request has not been answered
    pc,                 \* position of the running callback
    frame,              \* the running callback and its argument
    round,              \* the forEach in progress
    obs,                \* what the running callback has done so far
    applied,            \* applied[i]: runs of the i-th continuation that waited
    sent,               \* envelopes handed to sendMessage, in order
    futures,            \* futures[i]: the promise of the i-th dispatch call
    built,              \* outcome of the constructor call
    hostReplaced        \* replaceState has run for a fetch response or a push

vars == <<state, readyResolved, readyResolveCalls, listeners, regFn,
          unsubCalled, reactions, fetchPending, pc, frame, round, obs,
          applied, sent, futures, built, hostReplaced>>

\* what the constructor and dispatch write
ext == <<sent, futures, built>>

IdleFrame == [kind |-> "idle", msg |-> NullMessage, cont |-> "none"]
IdleRound == [arr |-> <<>>, len |-> 0, idx |-> 1, aliased |-> FALSE]
IdleObs == [pre |-> EmptyState, preReady |-> FALSE, op |-> "none",
            arg |-> EmptyState, deser |-> 0, threw |-> FALSE, log |-> <<>>,
            startRegs |-> <<>>, startUnsub |-> {}]

RegsOf(ls) == [i \in 1..Len(ls) |-> ls[i].reg]

\* new Store({channelName: "main", deserializer: Deserializer}), Store.js:55-72
Init ==
    /\ state = EmptyState
    /\ readyResolved = FALSE
    /\ readyResolveCalls = 0
    /\ listeners = <<>>
    /\ regFn = <<>>
    /\ unsubCalled = {}
    /\ reactions = <<>>
    /\ fetchPending = TRUE
    /\ pc = "idle"
    /\ frame = IdleFrame
    /\ round = IdleRound
    /\ obs = IdleObs
    /\ applied = <<>>
    /\ sent = <<FetchRequest(ChannelName)>>
    /\ futures = <<>>
    /\ built = [status |-> "ok", error |-> NoError, listening |-> TRUE,
                channelName |-> ChannelName]
    /\ hostReplaced = FALSE

\* no callback is running and no reaction of readyPromise is due
CanStartTask ==
    /\ pc = "idle"
    /\ ~(readyResolveCalls > 0 /\ reactions # <<>>)

StartObs(deser, threw) ==
    [IdleObs EXCEPT !.pre = state, !.preReady = readyResolved,
                    !.deser = deser, !.threw = threw]

(* ------------------------ bodies of the methods ------------------------ *)
\* the callback returns without touching the store
Discard(kind, m, deser, threw) ==
    /\ pc' = "done"
    /\ frame' = [kind |-> kind, msg |-> m, cont |-> "none"]
    /\ obs' = StartObs(deser, threw)
    /\ UNCHANGED <<state, readyResolved, readyResolveCalls, listeners, regFn,
                   unsubCalled, reactions, round, applied, hostReplaced>>

\* replaceState(s), Store.js:160-164: assign, then start the forEach
ReplaceState(kind, m, s, cont, deser) ==
    /\ state' = s
    /\ round' = [arr |-> listeners, len |-> Len(listeners), idx |-> 1,
                 aliased |-> TRUE]
    /\ pc' = "notify"
    /\ frame' = [kind |-> kind, msg |-> m, cont |-> cont]
    /\ obs' = [StartObs(deser, FALSE) EXCEPT !.op = "replace", !.arg = s,
                   !.startRegs = RegsOf(listeners), !.startUnsub = unsubCalled]
    /\ hostReplaced' = (hostReplaced \/ kind \in {"push", "fetch"})
    /\ UNCHANGED <<readyResolved, readyResolveCalls, listeners, regFn,
                   unsubCalled, reactions, applied>>

\* patchState(d), Store.js:148-154
PatchState(kind, m, d, deser) ==
    IF patchStateWaits(readyResolved)
    THEN /\ Len(reactions) < MaxPending
         /\ reactions' = Append(reactions, [kind |-> "patch", diff |-> d,
                                            id |-> Len(applied) + 1,
                                            late |-> FALSE])
         /\ applied' = Append(applied, 0)
         /\ pc' = "done"
         /\ frame' = [kind |-> kind, msg |-> m, cont |-> "none"]
         /\ obs' = StartObs(deser, FALSE)
         /\ UNCHANGED <<state, readyResolved, readyResolveCalls, listeners,
                        regFn, unsubCalled, round, hostReplaced>>
    ELSE /\ state' = patchedState(state, d)
         /\ round' = [arr |-> listeners, len |-> Len(listeners), idx |-> 1,
                      aliased |-> TRUE]
         /\ pc' = "notify"
         /\ frame' = [kind |-> kind, msg |-> m, cont |-> "none"]
         /\ obs' = [StartObs(deser, FALSE) EXCEPT !.op = "patch", !.arg = d,
                        !.startRegs = RegsOf(listeners),
                        !.startUnsub = unsubCalled]
         /\ UNCHANGED <<readyResolved, readyResolveCalls, listeners, regFn,
                        unsubCalled, reactions, applied, hostReplaced>>

(* ------------------------------ actions -------------------------------- *)
\* the transport delivers m to the listener registered at Store.js:89-111,
\* through withDeserializer(deserializer) and shouldDeserialize
ReceivePush(m) ==
    /\ CanStartTask
    /\ UNCHANGED fetchPending
    /\ LET w == withDeserializer(m)
       IN  IF w.threw \/ listenerDiscards(m)
           THEN Discard("push", m, w.deser, w.threw)
           ELSE CASE m.type = STATE_TYPE ->
                       ReplaceState("push", m, w.payload, "resolve", w.deser)
                  [] m.type = PATCH_STATE_TYPE ->
                       PatchState("push", m, w.payload, w.deser)
                  [] OTHER -> Discard("push", m, w.deser, FALSE)
    /\ UNCHANGED ext

\* the transport answers the FETCH_STATE request of Store.js:63-65 with m:
\* initializeStore(m), Store.js:223-233
ReceiveFetchResponse(m) ==
    /\ CanStartTask
    /\ fetchPending
    /\ fetchPending' = FALSE
    /\ IF ~initializeAccepts(m)
       THEN Discard("fetch", m, 0, FALSE)
       ELSE IF DeserializerThrows(m.payload)
            THEN Discard("fetch", m, 1, TRUE)
            ELSE ReplaceState("fetch", m, Deserializer(m.payload), "resolve", 1)
    /\ UNCHANGED ext

\* a direct call of store.replaceState(s)
ReplaceStateCall(s) ==
    /\ CanStartTask
    /\ UNCHANGED fetchPending
    /\ ReplaceState("replaceCall", NullMessage, s, "none", 0)
    /\ UNCHANGED ext

\* a direct call of store.patchState(d)
PatchStateCall(d) ==
    /\ CanStartTask
    /\ UNCHANGED fetchPending
    /\ PatchState("patchCall", NullMessage, d, 0)
    /\ UNCHANGED ext

\* the continuation of a patchState that waited on readyPromise,
\* Store.js:152-153
RunReaction ==
    /\ pc = "idle"
    /\ readyResolveCalls > 0
    /\ reactions # <<>>
    /\ Head(reactions).kind = "patch"
    /\ LET r == Head(reactions)
       IN  /\ reactions' = Tail(reactions)
           /\ state' = patchedState(state, r.diff)
           /\ applied' = [applied EXCEPT ![r.id] = @ + 1]
           /\ obs' = [StartObs(0, FALSE) EXCEPT !.op = "patch", !.arg = r.diff,
                          !.startRegs = RegsOf(listeners),
                          !.startUnsub = unsubCalled]
    /\ round' = [arr |-> listeners, len |-> Len(listeners), idx |-> 1,
                 aliased |-> TRUE]
    /\ pc' = "notify"
    /\ frame' = [kind |-> "reaction", msg |-> NullMessage, cont |-> "none"]
    /\ UNCHANGED <<readyResolved, readyResolveCalls, listeners, regFn,
                   unsubCalled, fetchPending>>
    /\ UNCHANGED <<ext, hostReplaced>>

\* subscribe(fn), Store.js:136-142, called between callbacks
Subscribe(fn) ==
    /\ CanStartTask
    /\ Len(regFn) < MaxRegs
    /\ regFn' = Append(regFn, fn)
    /\ listeners' = Append(listeners, [fn |-> fn, reg |-> Len(regFn) + 1])
    /\ UNCHANGED <<state, readyResolved, readyResolveCalls, unsubCalled,
                   reactions, fetchPending, pc, frame, round, obs, applied>>
    /\ UNCHANGED <<ext, hostReplaced>>

\* the function returned by the r-th subscribe call, called between callbacks
Unsubscribe(r) ==
    /\ CanStartTask
    /\ r \in 1..Len(regFn)
    /\ listeners' = unsubscribeFilter(listeners, regFn[r])
    /\ unsubCalled' = unsubCalled \cup {r}
    /\ UNCHANGED <<state, readyResolved, readyResolveCalls, regFn, reactions,
                   fetchPending, pc, frame, round, obs, applied>>
    /\ UNCHANGED <<ext, hostReplaced>>

\* forEach invokes the next listener, which does nothing else
NotifyPlain ==
    /\ pc = "notify"
    /\ forEachNext(round, listeners) # <<>>
    /\ LET l == forEachNext(round, listeners)[1]
       IN  obs' = [obs EXCEPT !.log = Append(@, [reg |-> l.reg, saw |-> state])]
    /\ round' = [round EXCEPT !.idx = @ + 1]
    /\ UNCHANGED <<state, readyResolved, readyResolveCalls, listeners, regFn,
                   unsubCalled, reactions, fetchPending, pc, frame, applied>>
    /\ UNCHANGED <<ext, hostReplaced>>

\* forEach invokes the next listener, which calls subscribe(fn): push appends
\* to the array under iteration while it still is this.listeners
NotifySubscribing(fn) ==
    /\ pc = "notify"
    /\ forEachNext(round, listeners) # <<>>
    /\ Len(regFn) < MaxRegs
    /\ LET l == forEachNext(round, listeners)[1]
           new == [fn |-> fn, reg |-> Len(regFn) + 1]
       IN  /\ obs' = [obs EXCEPT !.log = Append(@, [reg |-> l.reg, saw |-> state])]
           /\ listeners' = Append(listeners, new)
           /\ round' = [round EXCEPT !.idx = @ + 1,
                           !.arr = IF round.aliased THEN Append(@, new) ELSE @]
    /\ regFn' = Append(regFn, fn)
    /\ UNCHANGED <<state, readyResolved, readyResolveCalls, unsubCalled,
                   reactions, fetchPending, pc, frame, applied>>
    /\ UNCHANGED <<ext, hostReplaced>>

\* forEach invokes the next listener, which calls the unsubscribe function of
\* registration r: filter builds a new array, the one under iteration is left
NotifyUnsubscribing(r) ==
    /\ pc = "notify"
    /\ forEachNext(round, listeners) # <<>>
    /\ r \in 1..Len(regFn)
    /\ LET l == forEachNext(round, listeners)[1]
       IN  obs' = [obs EXCEPT !.log = Append(@, [reg |-> l.reg, saw |-> state])]
    /\ listeners' = unsubscribeFilter(listeners, regFn[r])
    /\ unsubCalled' = unsubCalled \cup {r}
    /\ round' = [round EXCEPT !.idx = @ + 1, !.aliased = FALSE]
    /\ UNCHANGED <<state, readyResolved, readyResolveCalls, regFn, reactions,
                   fetchPending, pc, frame, applied>>
    /\ UNCHANGED <<ext, hostReplaced>>

\* the forEach is over; the STATE case and initializeStore go on to
\* Store.js:98-101 and 228-231
FinishRound ==
    /\ pc = "notify"
    /\ forEachNext(round, listeners) = <<>>
    /\ pc' = "done"
    /\ IF frame.cont = "resolve" /\ mustResolve(readyResolved)
       THEN /\ readyResolved' = TRUE
            /\ readyResolveCalls' = readyResolveCalls + 1
       ELSE UNCHANGED <<readyResolved, readyResolveCalls>>
    /\ UNCHANGED <<state, listeners, regFn, unsubCalled, reactions,
                   fetchPending, frame, round, obs, applied>>
    /\ UNCHANGED <<ext, hostReplaced>>

\* the callback returns to the event loop
Return ==
    /\ pc = "done"
    /\ pc' = "idle"
    /\ frame' = IdleFrame
    /\ round' = IdleRound
    /\ obs' = IdleObs
    /\ UNCHANGED <<state, readyResolved, readyResolveCalls, listeners, regFn,
                   unsubCalled, reactions, fetchPending, applied>>
    /\ UNCHANGED <<ext, hostReplaced>>

\* dispatch(data), Store.js:186-193: the envelope is sent at once and the
\* promise is returned pending
Dispatch(data) ==
    /\ CanStartTask
    /\ Len(futures) < MaxDispatch
    /\ sent' = Append(sent, serializedMessageSender(dispatchEnvelope(data)))
    /\ futures' = Append(futures, PendingFuture)
    /\ UNCHANGED <<state, readyResolved, readyResolveCalls, listeners, regFn,
                   unsubCalled, reactions, fetchPending, pc, frame, round,
                   obs, applied, built, hostReplaced>>

\* the transport invokes the response callback of the i-th dispatch call with
\* resp while runtime.lastError is lastError, Store.js:193-219
DispatchResponse(i, resp, lastError) ==
    /\ CanStartTask
    /\ i \in 1..Len(futures)
    /\ LET fut == [futures[i] EXCEPT !.answered = TRUE]
           error == responseError(resp, lastError)
           bgErr == bgErrOf(error)
           threw == DeserializerThrows(resp.value)
           after ==
               IF ~resp.truthy
               THEN reject(fut, assignIn(bgErr, error), FALSE)
               ELSE IF deserializerEscapes(resp.value)
                    THEN [fut EXCEPT !.escaped = TRUE]
                    ELSE IF responseRejects(resp)
                         THEN reject(fut, assignIn(bgErr, error), threw)
                         ELSE resolve(fut,
                                  resolution(deserializedValue(resp.value)),
                                  threw)
       IN  futures' = [futures EXCEPT ![i] = after]
    /\ UNCHANGED <<state, readyResolved, readyResolveCalls, listeners, regFn,
                   unsubCalled, reactions, fetchPending, pc, frame, round,
                   obs, applied, sent, built, hostReplaced>>

\* ready(cb), Store.js:123-129, or a then or an await on the promise that
\* ready() returns, called between callbacks: cb becomes a reaction of
\* readyPromise.  A callback of kind "ready" reads getState(), one of kind
\* "readyPatch" calls patchState(d).
Ready(kind, d) ==
    /\ CanStartTask
    /\ Len(applied) < MaxPending
    /\ reactions' = Append(reactions, [kind |-> kind, diff |-> d,
                                       id |-> Len(applied) + 1,
                                       late |-> readyResolved])
    /\ applied' = Append(applied, 0)
    /\ UNCHANGED <<state, readyResolved, readyResolveCalls, listeners, regFn,
                   unsubCalled, fetchPending, pc, frame, round, obs, ext,
                   hostReplaced>>

\* a callback given to ready() runs cb on the spot, resolved or not
ReadyCallbackEager ==
    /\ pc = "idle"
    /\ reactions # <<>>
    /\ Head(reactions).kind = "ready"
    /\ reactions' = Tail(reactions)
    /\ applied' = [applied EXCEPT ![Head(reactions).id] = @ + 1]
    /\ pc' = "done"
    /\ frame' = [kind |-> "readyCb", msg |-> NullMessage, cont |-> "none"]
    /\ obs' = [StartObs(0, FALSE) EXCEPT !.op = "getState", !.arg = state]
    /\ UNCHANGED <<state, readyResolved, readyResolveCalls, listeners, regFn,
                   unsubCalled, fetchPending, round, ext, hostReplaced>>

\* the reaction of readyPromise.then(cb), Store.js:125: cb reads getState()
ReadyCallback ==
    /\ pc = "idle"
    /\ readyResolveCalls > 0
    /\ reactions # <<>>
    /\ Head(reactions).kind = "ready"
    /\ reactions' = Tail(reactions)
    /\ applied' = [applied EXCEPT ![Head(reactions).id] = @ + 1]
    /\ pc' = "done"
    /\ frame' = [kind |-> IF Head(reactions).late THEN "readyCbLate"
                          ELSE "readyCb",
                 msg |-> NullMessage, cont |-> "none"]
    /\ obs' = [StartObs(0, FALSE) EXCEPT !.op = "getState", !.arg = state]
    /\ UNCHANGED <<state, readyResolved, readyResolveCalls, listeners, regFn,
                   unsubCalled, fetchPending, round, ext, hostReplaced>>

\* the reaction of readyPromise.then(cb), Store.js:125: cb calls
\* patchState(d), which finds readyResolved set (Store.js:99-100 set it
\* before they resolved the promise) and goes on without waiting,
\* Store.js:150-153
ReadyCallbackPatching ==
    /\ pc = "idle"
    /\ readyResolveCalls > 0
    /\ reactions # <<>>
    /\ Head(reactions).kind = "readyPatch"
    /\ ~patchStateWaits(readyResolved)
    /\ reactions' = Tail(reactions)
    /\ applied' = [applied EXCEPT ![Head(reactions).id] = @ + 1]
    /\ state' = patchedState(state, Head(reactions).diff)
    /\ round' = [arr |-> listeners, len |-> Len(listeners), idx |-> 1,
                 aliased |-> TRUE]
    /\ pc' = "notify"
    /\ frame' = [kind |-> "readyCb", msg |-> NullMessage, cont |-> "none"]
    /\ obs' = [StartObs(0, FALSE) EXCEPT !.op = "patch",
                   !.arg = Head(reactions).diff,
                   !.startRegs = RegsOf(listeners),
                   !.startUnsub = unsubCalled]
    /\ UNCHANGED <<readyResolved, readyResolveCalls, listeners, regFn,
                   unsubCalled, fetchPending, ext, hostReplaced>>

\* getState(), Store.js:170-172, called between callbacks
GetState ==
    /\ CanStartTask
    /\ pc' = "done"
    /\ frame' = [kind |-> "getState", msg |-> NullMessage, cont |-> "none"]
    /\ obs' = [StartObs(0, FALSE) EXCEPT !.op = "getState", !.arg = state]
    /\ UNCHANGED <<state, readyResolved, readyResolveCalls, listeners, regFn,
                   unsubCalled, reactions, fetchPending, round, applied, ext,
                   hostReplaced>>

\* a replaceReducer that notifies the listeners, as the replaceReducer of a
\* reducer-based store does
ReplaceReducerNotifying ==
    /\ CanStartTask
    /\ round' = [arr |-> listeners, len |-> Len(listeners), idx |-> 1,
                 aliased |-> TRUE]
    /\ pc' = "notify"
    /\ frame' = [kind |-> "replaceReducer", msg |-> NullMessage,
                 cont |-> "none"]
    /\ obs' = [StartObs(0, FALSE) EXCEPT !.startRegs = RegsOf(listeners),
                                         !.startUnsub = unsubCalled]
    /\ UNCHANGED <<state, readyResolved, readyResolveCalls, listeners, regFn,
                   unsubCalled, reactions, fetchPending, applied, ext,
                   hostReplaced>>

\* replaceReducer(), Store.js:177-179, called between callbacks
ReplaceReducer ==
    /\ CanStartTask
    /\ pc' = "done"
    /\ frame' = [kind |-> "replaceReducer", msg |-> NullMessage,
                 cont |-> "none"]
    /\ obs' = StartObs(0, FALSE)
    /\ UNCHANGED <<state, readyResolved, readyResolveCalls, listeners, regFn,
                   unsubCalled, reactions, fetchPending, round, applied, ext,
                   hostReplaced>>

Next ==
    \/ \E m \in Messages : ReceivePush(m)
    \/ \E m \in Messages : ReceiveFetchResponse(m)
    \/ \E s \in StateVals : ReplaceStateCall(s)
    \/ \E d \in Diffs : PatchStateCall(d)
    \/ RunReaction
    \/ \E fn \in Callbacks : Subscribe(fn)
    \/ \E r \in 1..MaxRegs : Unsubscribe(r)
    \/ NotifyPlain
    \/ \E fn \in Callbacks : NotifySubscribing(fn)
    \/ \E r \in 1..MaxRegs : NotifyUnsubscribing(r)
    \/ FinishRound
    \/ Return

Spec == Init /\ [][Next]_vars

\* a running callback runs on, and due reactions of readyPromise are run
LiveSpec ==
    /\ Spec
    /\ WF_vars(RunReaction)
    /\ WF_vars(NotifyPlain)
    /\ WF_vars(FinishRound)
    /\ WF_vars(Return)

\* the messages that answer the FETCH_STATE request in DispatchSpec
FetchAnswers ==
    {[truthy |-> TRUE, type |-> FETCH_STATE_TYPE, channelName |-> ChannelName,
      payload |-> Serialized([k \in Keys |-> 1])],
     NullMessage}

\* the transport answers a dispatch with a response, or with nothing and
\* runtime.lastError set or not
Answers ==
    {a \in [resp : Responses, lastError : ErrorValues] :
        a.resp.truthy => a.lastError = UndefinedError}

\* dispatch calls and their answers, around the answer to FETCH_STATE
DispatchNext ==
    \/ \E data \in Actions : Dispatch(data)
    \/ \E i \in 1..MaxDispatch : \E a \in Answers :
          DispatchResponse(i, a.resp, a.lastError)
    \/ \E m \in FetchAnswers : ReceiveFetchResponse(m)
    \/ FinishRound
    \/ Return

DispatchSpec == Init /\ [][DispatchNext]_vars

\* before new Store(options): nothing is sent, nothing listens
InitUnbuilt ==
    /\ state = EmptyState
    /\ readyResolved = FALSE
    /\ readyResolveCalls = 0
    /\ listeners = <<>>
    /\ regFn = <<>>
    /\ unsubCalled = {}
    /\ reactions = <<>>
    /\ fetchPending = TRUE
    /\ pc = "idle"
    /\ frame = IdleFrame
    /\ round = IdleRound
    /\ obs = IdleObs
    /\ applied = <<>>
    /\ sent = <<>>
    /\ futures = <<>>
    /\ built = [status |-> "none", error |-> NoError, listening |-> FALSE,
                channelName |-> EmptyName]
    /\ hostReplaced = FALSE

\* new Store(options), Store.js:41-116: the tests of the options come first,
\* then the FETCH_STATE request and the registration of the message listener
Construct(options) ==
    /\ built.status = "none"
    /\ LET o == withDefaults(options)
           e == configurationError(o)
       IN  IF e # NoError
           THEN /\ built' = [built EXCEPT !.status = "threw", !.error = e]
                /\ UNCHANGED sent
           ELSE /\ built' = [status |-> "ok", error |-> NoError,
                             listening |-> TRUE,
                             channelName |-> o.channelName]
                /\ sent' = <<FetchRequest(o.channelName)>>
    /\ UNCHANGED <<state, readyResolved, readyResolveCalls, listeners, regFn,
                   unsubCalled, reactions, fetchPending, pc, frame, round,
                   obs, applied, futures, hostReplaced>>

\* the store built on channel "main" at work
Built == built.status = "ok" /\ built.channelName = ChannelName

ConstructNext ==
    \/ \E options \in Options : Construct(options)
    \/ Built /\ \E m \in FetchAnswers : ReceiveFetchResponse(m)
    \/ Built /\ \E fn \in Callbacks : Subscribe(fn)
    \/ Built /\ \E r \in 1..MaxRegs : Unsubscribe(r)
    \/ Built /\ \E data \in Actions : Dispatch(data)
    \/ Built /\ NotifyPlain
    \/ Built /\ FinishRound
    \/ Built /\ Return

ConstructSpec == InitUnbuilt /\ [][ConstructNext]_vars

\* the diffs of ReadySpec: nothing, count 0, count 1
SomeDiffs == Diffs
\* the pushes of ReadySpec: a state, and the diffs
SomePushes ==
    {[truthy |-> TRUE, type |-> STATE_TYPE, channelName |-> ChannelName,
      payload |-> Serialized([k \in Keys |-> 1])]}
    \cup {[truthy |-> TRUE, type |-> PATCH_STATE_TYPE,
            channelName |-> ChannelName, payload |-> Serialized(d)] :
              d \in SomeDiffs}

\* the store with callers of ready() and patchState(), no listener subscribed
ReadyNext ==
    \/ \E m \in SomePushes : ReceivePush(m)
    \/ \E m \in FetchAnswers : ReceiveFetchResponse(m)
    \/ \E d \in SomeDiffs : PatchStateCall(d)
    \/ Ready("ready", EmptyState)
    \/ \E d \in SomeDiffs : Ready("readyPatch", d)
    \/ RunReaction
    \/ ReadyCallback
    \/ ReadyCallbackPatching
    \/ FinishRound
    \/ Return

ReadySpec == Init /\ [][ReadyNext]_vars

\* the answers to dispatch of ApiSpec: nothing, an error, a result
ApiAnswers ==
    {[resp |-> NoResponse, lastError |-> MessageError],
     [resp |-> [truthy |-> TRUE, error |-> StringError,
                value |-> [ok |-> FALSE, body |-> Undefined]],
      lastError |-> UndefinedError],
     [resp |-> [truthy |-> TRUE, error |-> UndefinedError,
                value |-> Serialized(ResultObj(42))],
      lastError |-> UndefinedError]}

\* every public method of the store, and the callbacks of the transport
ApiNext ==
    \/ \E m \in FetchAnswers : ReceiveFetchResponse(m)
    \/ ReplaceStateCall([k \in Keys |-> 0])
    \/ PatchStateCall([k \in Keys |-> 1])
    \/ Ready("ready", EmptyState)
    \/ RunReaction
    \/ ReadyCallback
    \/ Subscribe("f")
    \/ \E r \in 1..MaxRegs : Unsubscribe(r)
    \/ NotifyPlain
    \/ FinishRound
    \/ Return
    \/ GetState
    \/ ReplaceReducer
    \/ Dispatch("inc")
    \/ \E i \in 1..MaxDispatch : \E a \in ApiAnswers :
          DispatchResponse(i, a.resp, a.lastError)

ApiSpec == Init /\ [][ApiNext]_vars

(* ------------------------------ claims --------------------------------- *)
\* a full-state message (fetch response or STATE push) has been handled to
\* the end by the running callback
FullStateHandled == pc = "done" /\ frame.cont = "resolve"

\* C1: readiness resolves exactly once: readyResolve is invoked by the first
\* fetch response or STATE push that is handled, no later message invokes it
\* again, and readyResolved never goes back to false.
C1_ReadyExactlyOnce ==
    /\ [](/\ readyResolveCalls <= 1
          /\ readyResolved <=> readyResolveCalls = 1
          /\ FullStateHandled => readyResolved /\ readyResolveCalls = 1)
    /\ [][readyResolved =>
            readyResolved' /\ readyResolveCalls' = readyResolveCalls]_vars

\* the fetch response has been handled after a STATE push resolved readiness
C1_Witness ==
    /\ FullStateHandled
    /\ frame.kind = "fetch"
    /\ obs.preReady
    /\ readyResolveCalls = 1

\* the fetch response m has been handled to the end
FetchHandled == pc = "done" /\ frame.kind = "fetch"

\* C2 as stated: a fetch response {type: STATE, channelName: the store's,
\* payload: P} makes the state P (deserialized) and resolves readiness.
C2_StateTypedResponseInstalls ==
    (/\ FetchHandled
     /\ frame.msg.truthy
     /\ frame.msg.type = STATE_TYPE
     /\ frame.msg.channelName = ChannelName
     /\ ~DeserializerThrows(frame.msg.payload))
    => state = Deserializer(frame.msg.payload) /\ readyResolved

\* C2 amended: a fetch response of type FETCH_STATE with a payload P the
\* deserializer reads makes the state deserializer(P) and resolves readiness;
\* any other response (falsy, another type such as STATE, or an unreadable
\* payload) leaves state and readiness as they were.
C2_FetchTypedResponseInstalls ==
    FetchHandled =>
        IF (frame.msg.truthy /\ frame.msg.type = FETCH_STATE_TYPE) /\ ~DeserializerThrows(frame.msg.payload)
        THEN /\ state = Deserializer(frame.msg.payload)
             /\ readyResolved
             /\ readyResolveCalls = 1
        ELSE /\ state = obs.pre
             /\ readyResolved = obs.preReady
             /\ obs.log = <<>>

\* a FETCH_STATE typed response has installed a state other than the one held
\* before and resolved readiness
C2_Witness ==
    /\ FetchHandled
    /\ (frame.msg.truthy /\ frame.msg.type = FETCH_STATE_TYPE)
    /\ ~DeserializerThrows(frame.msg.payload)
    /\ state # obs.pre
    /\ ~obs.preReady
    /\ readyResolved

\* C3: while readiness is not resolved no patchState has assigned the state
\* or invoked a listener: a callback that applied a patch started Ready, and
\* a patch that waited is applied only once readiness is resolved.
C3_NoPatchBeforeReady ==
    /\ obs.op = "patch" => obs.preReady /\ readyResolved
    /\ \A i \in 1..Len(applied) : applied[i] > 0 => readyResolved
    /\ (~readyResolved /\ pc = "done" /\ frame.kind = "patchCall")
          => state = obs.pre /\ obs.log = <<>>
    /\ (~readyResolved /\ pc = "done" /\ frame.kind = "push"
          /\ frame.msg.type = PATCH_STATE_TYPE)
          => state = obs.pre /\ obs.log = <<>>

\* two patches, a pushed one and a directly called one that changes the
\* key, wait while the store is not Ready and a listener is registered
C3_Witness ==
    /\ ~readyResolved
    /\ pc = "done"
    /\ frame.kind = "patchCall"
    /\ Len(reactions) = 2
    /\ reactions[2].diff["count"] # state["count"]
    /\ reactions[2].diff["count"] # Absent
    /\ listeners # <<>>

\* the ids of the patches still waiting on readyPromise
WaitingIds == {reactions[j].id : j \in 1..Len(reactions)}

\* a PATCH_STATE push for the store's channel with a readable diff is being
\* handled or has been handled by the running callback
PatchPushAccepted ==
    /\ pc # "idle"
    /\ frame.kind = "push"
    /\ frame.msg.truthy
    /\ frame.msg.type = PATCH_STATE_TYPE
    /\ frame.msg.channelName = ChannelName
    /\ ~obs.threw

C5_ReadyPatchApplied ==
    (PatchPushAccepted /\ obs.preReady) =>
        /\ state = PatchStrategy(obs.pre, Deserializer(frame.msg.payload))
        /\ obs.op = "patch"
        /\ Len(obs.log) <= Len(obs.startRegs)
        /\ RegsOf(obs.log) = SubSeq(obs.startRegs, 1, Len(obs.log))
        /\ pc = "done" => RegsOf(obs.log) = obs.startRegs

\* a Ready store with two listeners has applied a pushed diff that leaves the
\* key alone, on a state that has the key
C5_Witness ==
    /\ PatchPushAccepted
    /\ obs.preReady
    /\ pc = "done"
    /\ Len(obs.log) = 2
    /\ Deserializer(frame.msg.payload)["count"] = Absent
    /\ state["count"] # Absent

\* the running callback has left state, listeners and readiness alone
Untouched ==
    /\ pc = "done"
    /\ state = obs.pre
    /\ obs.op = "none"
    /\ obs.log = <<>>
    /\ readyResolved = obs.preReady

\* C6 as stated: no envelope of another channel, pushed or given as the
\* fetch response, mutates the state, triggers a listener or resolves
\* readiness.
C6_OtherChannelIgnoredEverywhere ==
    (/\ pc # "idle"
     /\ frame.kind \in {"push", "fetch"}
     /\ frame.msg.truthy
     /\ frame.msg.channelName # ChannelName)
    => Untouched

\* C6 amended: no pushed envelope of another channel mutates the state,
\* triggers a listener or resolves readiness (the fetch response is not
\* tested for its channelName).
C6_OtherChannelPushIgnored ==
    (/\ pc # "idle"
     /\ frame.kind = "push"
     /\ frame.msg.truthy
     /\ frame.msg.channelName # ChannelName)
    => Untouched

\* a Ready store with a listener has been pushed a STATE envelope of another
\* channel whose payload differs from the state held
C6_Witness ==
    /\ pc = "done"
    /\ frame.kind = "push"
    /\ frame.msg.truthy
    /\ frame.msg.channelName # ChannelName
    /\ frame.msg.type = STATE_TYPE
    /\ ~DeserializerThrows(frame.msg.payload)
    /\ Deserializer(frame.msg.payload) # state
    /\ listeners # <<>>
    /\ readyResolved

\* C7 as stated: the deserializer is not invoked on an envelope whose type
\* is none of the library's or whose channelName does not match, and such an
\* envelope does not mutate the state.
C7_UnrecognizedNeverDeserialized ==
    (/\ pc # "idle"
     /\ frame.kind \in {"push", "fetch"}
     /\ frame.msg.truthy
     /\ \/ frame.msg.type \notin {FETCH_STATE_TYPE, STATE_TYPE, PATCH_STATE_TYPE}
        \/ frame.msg.channelName # ChannelName)
    => obs.deser = 0 /\ state = obs.pre

\* C7 amended: a pushed envelope is deserialized exactly when it is truthy,
\* its type is a string and its channelName matches, so also when the type
\* is a string the store does not handle; the fetch response is deserialized
\* exactly when its type is FETCH_STATE; an envelope that is not deserialized,
\* and a pushed one whose type is neither STATE nor PATCH_STATE, leaves the
\* state alone.
C7_DeserializedIffStringTypeOnChannel ==
    /\ (pc # "idle" /\ frame.kind = "push") =>
          /\ obs.deser = 1 <=> (/\ frame.msg.truthy
                                /\ frame.msg.type # NonStringType
                                /\ frame.msg.channelName = ChannelName)
          /\ obs.deser = 0 => Untouched
          /\ frame.msg.type \notin {STATE_TYPE, PATCH_STATE_TYPE} => Untouched
    /\ (pc # "idle" /\ frame.kind = "fetch") =>
          /\ obs.deser = 1 <=> (/\ frame.msg.truthy
                                /\ frame.msg.type = FETCH_STATE_TYPE)
          /\ obs.deser = 0 => Untouched
    /\ obs.deser \in {0, 1}

\* a pushed envelope of the store's channel with a type the store does not
\* handle and a readable payload has been deserialized and dropped
C7_Witness ==
    /\ pc = "done"
    /\ frame.kind = "push"
    /\ frame.msg.truthy
    /\ frame.msg.type = UnknownType
    /\ frame.msg.channelName = ChannelName
    /\ ~DeserializerThrows(frame.msg.payload)
    /\ Deserializer(frame.msg.payload) # state
    /\ obs.deser = 1
    /\ state = obs.pre

\* C8: each replaceState and each application of patchState invokes every
\* listener registered when it starts exactly once, in registration order,
\* within the same callback and after the state has been assigned, whatever
\* the listeners subscribe or unsubscribe meanwhile.
C8_RoundNotifiesStartListenersInOrder ==
    obs.op # "none" =>
        /\ pc \in {"notify", "done"}
        /\ state = IF obs.op = "replace" THEN obs.arg
                   ELSE PatchStrategy(obs.pre, obs.arg)
        /\ Len(obs.log) <= Len(obs.startRegs)
        /\ RegsOf(obs.log) = SubSeq(obs.startRegs, 1, Len(obs.log))
        /\ pc = "done" => RegsOf(obs.log) = obs.startRegs
        /\ \A j \in 1..Len(obs.log) : obs.log[j].saw = state

\* a round over two listeners has ended in which a listener unsubscribed a
\* registration of the round and the state was changed
C8_Witness ==
    /\ pc = "done"
    /\ Len(obs.log) = 2
    /\ RegsOf(listeners) # obs.startRegs
    /\ unsubCalled # obs.startUnsub
    /\ state # obs.pre

\* C9 as stated: once the unsubscribe function of a registration has been
\* invoked the registration is notified no more, also not by a round that is
\* in progress.
C9_NoNotificationAfterUnsubscribe ==
    [][Len(obs'.log) > Len(obs.log)
         => obs'.log[Len(obs'.log)].reg \notin unsubCalled]_vars

\* C9 amended: once the unsubscribe function of a registration has been
\* invoked the registration is in the registry no more and no round that
\* starts afterwards notifies it (a round in progress still does).
C9_NoLaterRoundNotifiesUnsubscribed ==
    /\ \A j \in 1..Len(listeners) : listeners[j].reg \notin unsubCalled
    /\ \A j \in 1..Len(obs.log) : obs.log[j].reg \notin obs.startUnsub

\* a round that started after an unsubscribe has notified the remaining
\* listener, of the same callback or not
C9_Witness ==
    /\ pc = "done"
    /\ obs.startUnsub # {}
    /\ Len(obs.log) = 1
    /\ Len(regFn) = 2

\* the unsubscribe function of registration r is invoked for the first time
FirstUnsubscribe(r) == r \notin unsubCalled /\ r \in unsubCalled'

\* C10 as stated: the first invocation of an unsubscribe function removes
\* the one registration of its subscribe call and nothing else.
C10_RemovesOneRegistration ==
    [][\A r \in 1..Len(regFn) :
         FirstUnsubscribe(r) =>
             listeners' = SelectSeq(listeners, LAMBDA l : l.reg # r)]_vars

\* C10 amended: the first invocation of an unsubscribe function removes
\* every registration of its callback; the registrations of other callbacks
\* stay, in their order.
C10_RemovesEveryRegistrationOfCallback ==
    [][\A r \in 1..Len(regFn) :
         FirstUnsubscribe(r) =>
             listeners' = SelectSeq(listeners, LAMBDA l : l.fn # regFn[r])]_vars

\* in a round that started with two registrations of one callback and no
\* unsubscribe invoked, the unsubscribe function of the second has been
\* invoked and the registry is empty
C10_Witness ==
    /\ pc \in {"notify", "done"}
    /\ obs.startRegs = <<1, 2>>
    /\ regFn[1] = regFn[2]
    /\ obs.startUnsub = {}
    /\ unsubCalled = {2}
    /\ listeners = <<>>

\* the unsubscribe function of registration r, invoked before, is invoked
\* again, between callbacks or by a listener
LaterUnsubscribe(r) ==
    /\ r \in unsubCalled
    /\ Unsubscribe(r) \/ NotifyUnsubscribing(r)

\* C11 as stated: every invocation of an unsubscribe function after the first
\* leaves the registry as it is, whatever was subscribed in between.
C11_LaterUnsubscribeIsNoOp ==
    [][\A r \in 1..Len(regFn) :
         LaterUnsubscribe(r) => listeners' = listeners]_vars

\* C11 amended: an invocation of an unsubscribe function after the first
\* removes every registration of its callback made since, and leaves the
\* registry as it is when there is none.
C11_LaterUnsubscribeRemovesResubscribed ==
    [][\A r \in 1..Len(regFn) :
         LaterUnsubscribe(r) =>
             /\ listeners' = SelectSeq(listeners, LAMBDA l : l.fn # regFn[r])
             /\ (\A i \in 1..Len(listeners) : listeners[i].fn # regFn[r])
                    => listeners' = listeners]_vars

\* a round started with the unsubscribe function of registration 1 invoked
\* and its callback registered again as registration 2; a listener has
\* invoked the unsubscribe function of registration 1 again, which emptied
\* the registry
C11_Witness ==
    /\ pc \in {"notify", "done"}
    /\ obs.startUnsub = {1}
    /\ obs.startRegs = <<2>>
    /\ regFn[1] = regFn[2]
    /\ unsubCalled = {1}
    /\ listeners = <<>>

\* this step is an invocation of the response callback of the i-th dispatch
\* call, whose promise is pending
AnsweredNow(i) == futures[i].status = "pending" /\ futures'[i] # futures[i]

\* C12: a response that is truthy and has no error resolves the promise of
\* its dispatch call, and never rejects it, with the payload of the
\* deserialized value, undefined when the value or its payload is absent;
\* the value {payload: 42} resolves it with 42.
C12_ResolvesWithPayloadOfDeserialized ==
    [][\A i \in 1..Len(futures) : AnsweredNow(i) =>
         \A resp \in Responses : \A lastError \in ErrorValues :
           (/\ resp.truthy /\ ~resp.error.truthy
            /\ resp.value.ok
            /\ DispatchResponse(i, resp, lastError)) =>
               /\ futures'[i].status = "resolved"
               /\ futures'[i].payload =
                      IF resp.value.body.def /\ resp.value.body.has
                      THEN resp.value.body.payload ELSE Absent
               /\ resp.value.body = ResultObj(42) => futures'[i].payload = 42
       ]_vars

\* one promise is resolved with 42 and one with undefined, the deserializer
\* having read both values
C12_Witness ==
    /\ Len(futures) = 2
    /\ \A i \in 1..2 : futures[i].status = "resolved" /\ ~futures[i].threw
    /\ futures[1].payload = 42
    /\ futures[2].payload = Absent

\* C13: a falsy response, and a response with a truthy error, reject the
\* promise of their dispatch call and never resolve it; the message of the
\* rejection begins with backgroundErrPrefix and the rejection carries the
\* properties of lastError, respectively of the error of the response.
C13_RejectsWithPrefixedMergedError ==
    [][\A i \in 1..Len(futures) : AnsweredNow(i) =>
         \A resp \in Responses : \A lastError \in ErrorValues :
           (/\ ~resp.truthy \/ resp.error.truthy
            /\ DispatchResponse(i, resp, lastError)) =>
               LET e == IF resp.truthy THEN resp.error ELSE lastError
               IN  /\ futures'[i].status = "rejected"
                   /\ futures'[i].error["message"] # <<>>
                   /\ Head(futures'[i].error["message"]) = backgroundErrPrefix
                   /\ \A k \in ErrKeys :
                         e.props[k] # <<>> => futures'[i].error[k] = e.props[k]
       ]_vars

\* C14: a deserializer that throws on the value of a response is caught and
\* the value is used as it came: the promise is not rejected for it, no
\* exception leaves the callback, and a response without error resolves the
\* promise with the payload of the raw value.
C14_ThrowingDeserializerIsSwallowed ==
    [][\A i \in 1..Len(futures) : AnsweredNow(i) =>
         \A resp \in Responses : \A lastError \in ErrorValues :
           (/\ resp.truthy
            /\ ~resp.value.ok
            /\ DispatchResponse(i, resp, lastError)) =>
               /\ ~futures'[i].escaped
               /\ futures'[i].status = "rejected" <=> resp.error.truthy
               /\ ~resp.error.truthy =>
                     /\ futures'[i].status = "resolved"
                     /\ futures'[i].payload =
                            IF resp.value.body.def /\ resp.value.body.has
                            THEN resp.value.body.payload ELSE Absent
       ]_vars

\* the deserializer threw on the value of a response without error, and
\* the promise is resolved with the payload 42 of the raw value
C14_Witness ==
    \E i \in 1..Len(futures) :
        /\ futures[i].threw
        /\ futures[i].status = "resolved"
        /\ futures[i].payload = 42
        /\ ~futures[i].escaped

\* C15: every dispatch call sends one DISPATCH envelope with the channel of
\* the store, whether the store is ready or not, and has a promise of its
\* own: it is settled at most once, by its own response callback only, so
\* that outstanding calls may be answered in any order; a promise whose
\* callback is never invoked stays pending.
C15_OneEnvelopeOwnPromise ==
    /\ [](/\ Len(sent) = Len(futures) + 1
          /\ \A i \in 1..Len(futures) :
                /\ sent[i + 1].type = DISPATCH_TYPE
                /\ sent[i + 1].channelName = ChannelName
                /\ ~futures[i].answered => futures[i].status = "pending")
    /\ [][\A i \in 1..Len(futures) :
            /\ futures[i].status # "pending" =>
                  /\ futures'[i].status = futures[i].status
                  /\ futures'[i].payload = futures[i].payload
                  /\ futures'[i].error = futures[i].error
            /\ futures'[i] # futures[i] =>
                  /\ \E a \in Answers : DispatchResponse(i, a.resp, a.lastError)
                  /\ \A j \in 1..Len(futures) :
                        j # i => futures'[j] = futures[j]
         ]_vars
    /\ [][\A data \in Actions :
            Dispatch(data) =>
                /\ sent' = Append(sent, [type |-> DISPATCH_TYPE,
                                         channelName |-> ChannelName,
                                         payload |-> Serialized(data)])
                /\ Len(futures') = Len(futures) + 1
                /\ futures'[Len(futures')].status = "pending"
                /\ \A i \in 1..Len(futures) : futures'[i] = futures[i]
         ]_vars

\* the store is not ready; of two dispatch calls the second has been
\* answered and is rejected, the first has not been answered and is pending
C15_Witness ==
    /\ ~readyResolved
    /\ Len(futures) = 2
    /\ ~futures[1].answered /\ futures[1].status = "pending"
    /\ futures[2].answered /\ futures[2].status = "rejected"
    /\ sent[2].type = DISPATCH_TYPE /\ sent[3].type = DISPATCH_TYPE

\* C16 as stated: construction with an empty or missing channelName, or with
\* a serializer, deserializer or patchStrategy that is not callable, throws
\* a configuration error before anything is sent or registered.
C16_EmptyOrMissingNameFails ==
    [][\A options \in Options :
         (/\ \/ options.channelName \in {EmptyName, Missing}
             \/ options.serializer = NotFunction
             \/ options.deserializer = NotFunction
             \/ options.patchStrategy = NotFunction
          /\ Construct(options)) =>
             /\ built'.status = "threw"
             /\ built'.error # NoError
             /\ sent' = <<>>
             /\ ~built'.listening]_vars

\* C16 amended: construction with an empty channelName, or with a
\* serializer, deserializer or patchStrategy that is not callable, throws a
\* configuration error before anything is sent or registered; a missing
\* channelName takes the default channel name and is no error.
C16_EmptyNameOrNotCallableFails ==
    [][\A options \in Options :
         Construct(options) =>
            IF \/ options.channelName = EmptyName
               \/ options.serializer = NotFunction
               \/ options.deserializer = NotFunction
               \/ options.patchStrategy = NotFunction
            THEN /\ built'.status = "threw"
                 /\ built'.error # NoError
                 /\ sent' = <<>>
                 /\ ~built'.listening
            ELSE /\ built'.status = "ok"
                 /\ built'.listening
                 /\ built'.channelName =
                        IF options.channelName = Missing
                        THEN DEFAULT_CHANNEL_NAME ELSE options.channelName
                 /\ Len(sent') = 1
                 /\ sent'[1].type = FETCH_STATE_TYPE
                 /\ sent'[1].channelName = built'.channelName]_vars

\* the constructor has thrown for a deserializer that is not a function:
\* nothing has been sent, nothing listens
C16_Witness ==
    /\ built.status = "threw"
    /\ built.error = "deserializer must be a function"
    /\ sent = <<>>
    /\ ~built.listening

\* a call of dispatch, of its response callback, of getState or of
\* replaceReducer
QuietCall ==
    \/ \E data \in Actions : Dispatch(data)
    \/ /\ futures' # futures
       /\ \E i \in 1..Len(futures) : \E a \in Answers :
             DispatchResponse(i, a.resp, a.lastError)
    \/ GetState
    \/ ReplaceReducer

\* a call of ready, subscribe or an unsubscribe function between callbacks
RegistryCall ==
    \/ /\ reactions' # reactions
       /\ \E k \in {"ready", "readyPatch"} : \E d \in Diffs : Ready(k, d)
    \/ \E fn \in Callbacks : Subscribe(fn)
    \/ \E r \in 1..Len(regFn) : Unsubscribe(r)

\* C17: the state changes only inside replaceState and patchState; dispatch
\* (the call and its response callback), getState, replaceReducer, ready,
\* subscribe and unsubscribe leave the state as it is and invoke no
\* listener; dispatch, getState and replaceReducer also leave the registry
\* and the readiness as they are.
C17_OnlyReplaceAndPatchChangeState ==
    /\ [][state' # state =>
            /\ pc' = "notify"
            /\ obs'.op \in {"replace", "patch"}
            /\ obs'.op = "replace" => state' = obs'.arg
            /\ obs'.op = "patch" => state' = PatchStrategy(state, obs'.arg)
         ]_vars
    /\ [][(QuietCall \/ RegistryCall) =>
            /\ state' = state
            /\ pc' # "notify"
            /\ round' = round
            /\ obs'.log = <<>>]_vars
    /\ [][QuietCall =>
            /\ listeners' = listeners
            /\ readyResolved' = readyResolved
            /\ readyResolveCalls' = readyResolveCalls
            /\ reactions' = reactions]_vars

\* getState has returned the state of a ready store that has a listener and
\* a settled dispatch, and has left them as they were
C17_Witness ==
    /\ pc = "done"
    /\ frame.kind = "getState"
    /\ obs.arg = state
    /\ state # EmptyState
    /\ readyResolved
    /\ listeners # <<>>
    /\ obs.log = <<>>
    /\ \E i \in 1..Len(futures) : futures[i].status = "rejected"

\* the patches that wait on readyPromise, by their place in reactions
WaitingPatches == {k \in 1..Len(reactions) : reactions[k].kind = "patch"}

\* the continuation numbered i, which waits in reactions, is run by this step
Resumed(i) ==
    /\ i \in 1..Len(applied)
    /\ Len(applied') = Len(applied)
    /\ applied'[i] = applied[i] + 1

\* the patches that waited are applied in the order of their arrival, each
\* by patchStrategy on the state the one before it left
WaitingPatchesFoldInOrder ==
    [][\A k \in 1..Len(reactions) :
         (reactions[k].kind = "patch" /\ Resumed(reactions[k].id)) =>
             /\ \A j \in WaitingPatches : reactions[j].id >= reactions[k].id
             /\ state' = PatchStrategy(state, reactions[k].diff)]_vars

\* C18 as stated: with the continuations of readyPromise run in the order in
\* which they began to wait, the PATCH_STATE pushes that arrived before
\* readiness are applied in the order of their arrival and all of them
\* before any later PATCH_STATE push or patchState call, a patchState call
\* made by a ready() callback included.
C18_WaitingPatchesBeforeEveryLaterPatch ==
    /\ WaitingPatchesFoldInOrder
    /\ [](/\ pc # "idle"
          /\ obs.op = "patch"
          /\ frame.kind \in {"push", "patchCall", "readyCb"}
          => WaitingPatches = {})

\* C18 amended: the waiting patches are applied in the order of their
\* arrival and all of them before any PATCH_STATE push or patchState call
\* of a later task; a patchState call made by a ready() callback comes after
\* the waiting patches that arrived before its ready() call and before those
\* that arrived after it.
C18_WaitingPatchesBeforeLaterTasks ==
    /\ WaitingPatchesFoldInOrder
    /\ [](/\ pc # "idle"
          /\ obs.op = "patch"
          /\ frame.kind \in {"push", "patchCall"}
          => WaitingPatches = {})
    /\ [][\A k \in 1..Len(reactions) :
            (reactions[k].kind = "readyPatch" /\ Resumed(reactions[k].id)) =>
                /\ \A j \in WaitingPatches :
                      reactions[j].id > reactions[k].id
                /\ reactions' = Tail(reactions)
                /\ state' = PatchStrategy(state, reactions[k].diff)]_vars

\* two patches waited; the store became ready with count 1, the first patch
\* set count to 0 and the second has now set it to 1
C18_Witness ==
    /\ pc # "idle"
    /\ frame.kind = "reaction"
    /\ applied = <<1, 1>>
    /\ obs.pre = [k \in Keys |-> 0]
    /\ obs.arg = [k \in Keys |-> 1]
    /\ state = [k \in Keys |-> 1]
    /\ reactions = <<>>

\* the running callback was given a full state that the store accepts: a
\* STATE push of its channel, or a fetch response of type FETCH_STATE, with
\* a payload that the deserializer reads
FullStateAccepted ==
    /\ pc # "idle"
    /\ frame.msg.truthy
    /\ frame.msg.payload.ok
    /\ \/ /\ frame.kind = "push"
          /\ frame.msg.type = STATE_TYPE
          /\ frame.msg.channelName = ChannelName
       \/ /\ frame.kind = "fetch"
          /\ frame.msg.type = FETCH_STATE_TYPE

\* C19: full states are last writer wins, ready or not: every accepted
\* fetch response and STATE push calls replaceState, so that once it is
\* handled the state is its payload, whatever pushes and patches came
\* before it.
C19_FullStateAlwaysInstalled ==
    FullStateAccepted =>
        /\ obs.op = "replace"
        /\ obs.arg = frame.msg.payload.body
        /\ state = frame.msg.payload.body
        /\ pc = "done" => readyResolved /\ readyResolveCalls = 1

\* the fetch response came to a store that was ready and held another
\* state; it has been handled and the state is its payload
C19_Witness ==
    /\ pc = "done"
    /\ frame.kind = "fetch"
    /\ FullStateAccepted
    /\ obs.preReady
    /\ obs.pre # frame.msg.payload.body
    /\ state = frame.msg.payload.body

\* a callback given to ready() is running
ReadyCallbackRuns == pc # "idle" /\ frame.kind \in {"readyCb", "readyCbLate"}

\* C20: when a callback given to ready(), or a continuation that awaits
\* ready(), runs, replaceState has run for a fetch response or a STATE push,
\* so that getState() gives a state that came from the host and not the
\* initial state; every ready() call, made before or after readiness, is
\* answered once by the one resolution of readyPromise.
C20_ReadyCallbackAfterHostState ==
    /\ [](ReadyCallbackRuns =>
            /\ hostReplaced
            /\ readyResolved
            /\ readyResolveCalls = 1
            /\ obs.preReady
            /\ obs.op = "getState" => obs.arg = state /\ obs.arg # EmptyState)
    /\ [](\A i \in 1..Len(applied) : applied[i] <= 1)
    /\ [][\A k \in 1..Len(reactions) :
            (/\ reactions[k].kind \in {"ready", "readyPatch"}
             /\ Resumed(reactions[k].id)) =>
                /\ k = 1
                /\ hostReplaced
                /\ readyResolveCalls = 1
                /\ readyResolveCalls' = 1
                /\ state # EmptyState]_vars

\* a callback given to ready() after readiness runs, after a continuation
\* that waited before it, and getState() gives it the state of the host
C20_Witness ==
    /\ pc = "done"
    /\ frame.kind = "readyCbLate"
    /\ applied = <<1, 1>>
    /\ hostReplaced
    /\ obs.op = "getState"
    /\ obs.arg = [k \in Keys |-> 1]

====
